---- MODULE Spec2Model ----
(***************************************************************************)
(* Model of the webhook listener of github-runners-infra:                  *)
(*   internal/webhook/handler.go  (ServeHTTP, repoRateLimiter.allow,       *)
(*                                 provisionRunner; the revision with the  *)
(*                                 SSM secret store, lines 182-560)        *)
(*   internal/github/runner.go    (VerifyWebhookSignature,                 *)
(*                                 GenerateRepoRunnerToken)                *)
(*   internal/github/app.go       (InstallationToken; the DigitalOcean     *)
(*                                 client: CreateRunner, DeleteDroplet,    *)
(*                                 CleanupOldDroplets)                     *)
(*   cmd/reaper                   (main)                                   *)
(*                                                                         *)
(* Strings are sequences of one-character strings, so that length,         *)
(* prefix, truncation and formatting are computed as the code computes     *)
(* them.  Time is counted in clock ticks of 1/TicksPerSec second.          *)
(***************************************************************************)
EXTENDS Integers, Sequences, FiniteSets, TLC

VARIABLES
    now,         \* the wall clock, in ticks since the process started
    mu,          \* repoRateLimiter.mu: 0 when free, else the slot holding it
    buckets,     \* repoRateLimiter.buckets: repository key -> timestamps
    workerPool,  \* number of tokens in the buffered channel Handler.workerPool
    h,           \* per slot: the ServeHTTP call in flight or just answered
    t,           \* per slot: the provisioning goroutine launched by that call
    admitted,    \* history: repository key -> the times of all its admissions
    ssm,         \* the parameter store: the set of [name, value] it holds
    provider,    \* DigitalOcean: its droplets and the last id it gave out
    cb,          \* the HandleDestroy call answered last
    reaper,      \* the run of the reaper (cmd/reaper, CleanupOldDroplets)
    cfg          \* Config: what NewHandler was given, fixed from then on

vars == <<now, mu, buckets, workerPool, h, t, admitted, ssm, provider, cb, reaper, cfg>>

----------------------------------------------------------------------------
(* Bounds of the model *)

\* Number of requests that can be in flight (handler or its task) at once.
MaxReq == 2
\* Clock resolution: ticks per second (time.Now() is finer than Unix()).
TicksPerSec == 2
\* The clock takes at most MaxFine single ticks between two long jumps.
MaxFine == 2
\* Unix time, in seconds, at which the process started.
StartUnix == 1700000000
\* Length of the long repository name among the modelled events.
LongLen == 60
\* Number of droplets the provider makes in the runs with the reaper.
MaxDroplets == 3

Slots == 1..MaxReq

----------------------------------------------------------------------------
(* Characters and strings *)

LowerSeq == <<"a","b","c","d","e","f","g","h","i","j","k","l","m",
              "n","o","p","q","r","s","t","u","v","w","x","y","z">>
UpperSeq == <<"A","B","C","D","E","F","G","H","I","J","K","L","M",
              "N","O","P","Q","R","S","T","U","V","W","X","Y","Z">>
DigitSeq == <<"0","1","2","3","4","5","6","7","8","9">>

Range(s) == {s[i] : i \in DOMAIN s}

\* strings.EqualFold on ASCII: simple case folding, character by character.
ToLower(c) ==
    IF \E i \in DOMAIN UpperSeq : UpperSeq[i] = c
    THEN LowerSeq[CHOOSE i \in DOMAIN UpperSeq : UpperSeq[i] = c]
    ELSE c

EqualFold(a, b) ==
    /\ Len(a) = Len(b)
    /\ \A i \in DOMAIN a : ToLower(a[i]) = ToLower(b[i])

\* fmt's %d of a non-negative or negative integer.
RECURSIVE Digits(_)
Digits(n) ==
    IF n < 10 THEN <<DigitSeq[n + 1]>>
    ELSE Digits(n \div 10) \o <<DigitSeq[(n % 10) + 1]>>

Itoa(n) == IF n < 0 THEN <<"-">> \o Digits(0 - n) ELSE Digits(n)

\* strings.HasPrefix
HasPrefix(s, p) == Len(s) >= Len(p) /\ SubSeq(s, 1, Len(p)) = p

\* strings.TrimSpace (the space character is the only blank modelled)
RECURSIVE TrimLeft(_)
TrimLeft(s) ==
    IF s # <<>> /\ Head(s) = " " THEN TrimLeft(Tail(s)) ELSE s

RECURSIVE TrimRight(_)
TrimRight(s) ==
    IF s # <<>> /\ s[Len(s)] = " " THEN TrimRight(SubSeq(s, 1, Len(s) - 1)) ELSE s

\* A faulty sanitiser: labels are not trimmed before they are matched.
NoTrim(s) == s

TrimSpace(s) == TrimRight(TrimLeft(s))

\* safeNameRegex = ^[a-zA-Z0-9_-]+$
SafeChars == Range(LowerSeq) \cup Range(UpperSeq) \cup Range(DigitSeq) \cup {"_", "-"}

\* A faulty safeNameRegex: the pattern takes any character.
AnyNonEmpty(s) == Len(s) >= 1

safeNameRegex(s) == Len(s) >= 1 /\ \A i \in DOMAIN s : s[i] \in SafeChars

\* repoRegex = ^[a-zA-Z0-9._-]+/[a-zA-Z0-9._-]+$
RepoChars == SafeChars \cup {"."}

\* A faulty repoRegex: the pattern has lost its "/".
RepoCharsOnly(s) == Len(s) >= 1 /\ \A i \in DOMAIN s : s[i] \in RepoChars

repoRegex(s) ==
    \E k \in DOMAIN s :
        /\ s[k] = "/"
        /\ k > 1 /\ k < Len(s)
        /\ \A i \in DOMAIN s : i # k => s[i] \in RepoChars

----------------------------------------------------------------------------
(* Configuration of the handler (Config, NewHandler) *)

\* const maxBodySize = 1 * 1024 * 1024
maxBodySize == 1048576
\* repoRateLimiter.window = time.Minute, in seconds
WindowSec == 60
\* the longest runner name, in characters
MaxNameLen == 63
\* the cap on the body of a callback, in bytes
maxCallbackBody == 1024
\* maxAge of the reaper, in minutes
maxAgeMin == 60

WindowTicks == WindowSec * TicksPerSec

\* A configuration one below the number of concurrent requests, so that the
\* pool can fill up and the limiter can refuse; one that lets every request
\* through; and one whose callback secret was left empty.
TightConfig ==
    [MaxConcurrent |-> MaxReq - 1, MaxPerRepoPerMin |-> MaxReq - 1,
     CallbackSecret |-> "cbsec"]
RoomyConfig == [TightConfig EXCEPT !.MaxConcurrent = MaxReq, !.MaxPerRepoPerMin = MaxReq]
NoSecretConfig == [TightConfig EXCEPT !.CallbackSecret = ""]

\* cfg.MaxConcurrent: the capacity of the workerPool channel
Capacity == cfg.MaxConcurrent

\* cfg.MaxPerRepoPerMin: repoRateLimiter.limit
RateLimit == cfg.MaxPerRepoPerMin

webhookSecret == "whsec"

\* h.callbackSecret
callbackSecret == cfg.CallbackSecret

\* h.doToken, h.runnerVersion, h.callbackSecretSSMPath, h.callbackURL
doToken == <<"d","o","p","_","v","1">>
runnerVersion == <<"2",".","3","3","1",".","0">>
callbackSecretSSMPath == <<"/","g","i","t","h","u","b","-","r","u","n","n","e","r","s","/","c","a","l","l","b","a","c","k","-","s","e","c","r","e","t">>
callbackURL == <<"h","t","t","p","s",":","/","/","c","b">>

\* h.requiredLabel, "self-hosted" by default
requiredLabel == <<"s","e","l","f","-","h","o","s","t","e","d">>

----------------------------------------------------------------------------
(* Webhook payloads (WorkflowJobEvent) and HTTP requests *)

sOrg == <<"o","r","g">>
sApp == <<"a","p","p">>
sLong == [i \in 1..LongLen |-> "a"]
sDev == <<"d","e","v">>
sBadOwner == <<"b","a","d"," ","o","r","g">>
sSelfHostedMixed == <<"S","e","l","f","-","H","o","s","t","e","d">>
sChefPadded == <<" ","c","h","e","f"," ">>
sBadLabel == <<"b","a","d"," ","l","a","b","e","l","!">>
sUbuntu == <<"u","b","u","n","t","u">>

FullNameOf(owner, name) == owner \o <<"/">> \o name

Event(action, id, labels, owner, name) ==
    [action |-> action, id |-> id, labels |-> labels,
     fullName |-> FullNameOf(owner, name), name |-> name, owner |-> owner]

EvApp == Event("queued", 7, <<requiredLabel>>, sOrg, sApp)
EvAppLabels == Event("queued", 7, <<sSelfHostedMixed, sChefPadded, sBadLabel>>, sOrg, sApp)
EvDevApp == Event("queued", 7, <<requiredLabel>>, sDev, sApp)
EvLong == Event("queued", 12, <<requiredLabel>>, sOrg, sLong)
EvBadOwner == Event("queued", 7, <<requiredLabel>>, sBadOwner, sApp)
EvCompleted == Event("completed", 7, <<requiredLabel>>, sOrg, sApp)
EvNoLabel == Event("queued", 7, <<sUbuntu>>, sOrg, sApp)
\* what json.Unmarshal leaves in the event when the body does not parse
EvZero == Event("", 0, <<>>, <<>>, <<>>)

\* The events that pass every filter of ServeHTTP.
QueuedEvents == {EvApp, EvAppLabels, EvDevApp, EvLong, EvBadOwner}

\* The rate limiter's keys: event.Repo.FullName of the events above.
RepoKeys == {e.fullName : e \in QueuedEvents}

\* A request body: its raw bytes (named by raw), their number, whether the
\* connection fails while it is read, and what json.Unmarshal makes of it.
Body(raw, size, readErr, wellformed, event) ==
    [raw |-> raw, size |-> size, readErr |-> readErr,
     wellformed |-> wellformed, event |-> event]

BodyOf(e) ==
    CASE e = EvApp -> Body("app", 300, FALSE, TRUE, e)
      [] e = EvAppLabels -> Body("applabels", 350, FALSE, TRUE, e)
      [] e = EvDevApp -> Body("devapp", 300, FALSE, TRUE, e)
      [] e = EvLong -> Body("long", 400, FALSE, TRUE, e)
      [] e = EvBadOwner -> Body("badowner", 300, FALSE, TRUE, e)
      [] e = EvCompleted -> Body("completed", 300, FALSE, TRUE, e)
      [] e = EvNoLabel -> Body("nolabel", 300, FALSE, TRUE, e)

BodyMalformed == Body("malformed", 20, FALSE, FALSE, EvZero)
BodyFull == Body("full", maxBodySize, FALSE, TRUE, EvApp)
BodyOversized == Body("oversized", maxBodySize + 1, FALSE, TRUE, EvApp)
BodyBroken == Body("broken", 300, TRUE, TRUE, EvApp)

\* hex.EncodeToString(hmac-sha256(secret, payload)): an idealised keyed hash,
\* one digest per (secret, payload), written as a string of three symbols.
HmacHex(secret, raw) == <<"hmac", secret, raw>>

sSha256 == <<"s","h","a","2","5","6","=">>
sSha1 == <<"s","h","a","1","=">>

SigValid(b) == sSha256 \o HmacHex(webhookSecret, b.raw)
SigMissing == <<>>
SigWrongKey(b) == sSha256 \o HmacHex("guess", b.raw)
SigOtherBody(b) == sSha256 \o HmacHex(webhookSecret, "replayed")
SigBadPrefix(b) == sSha1 \o HmacHex(webhookSecret, b.raw)
SigBare(b) == HmacHex(webhookSecret, b.raw)

SigsFor(b) ==
    {SigValid(b), SigMissing, SigWrongKey(b), SigOtherBody(b), SigBadPrefix(b), SigBare(b)}

\* r.RemoteAddr of the connections, and an address in X-Forwarded-For
sRemoteAddr == "198.51.100.7:443"
sForwardedFor == "203.0.113.9"

\* A request: its method, body, X-Hub-Signature-256 (sig), X-GitHub-Event
\* (evtype), X-Forwarded-For (xff, "" when absent) and r.RemoteAddr.
Request(method, body, sig, evtype) ==
    [method |-> method, body |-> body, sig |-> sig, evtype |-> evtype,
     xff |-> "", remote |-> sRemoteAddr]

\* Request r as it arrives through a proxy that names the caller.
Forwarded(r, xff) == [r EXCEPT !.xff = xff]

\* A delivery as GitHub sends it.
Delivery(e) == Request("POST", BodyOf(e), SigValid(BodyOf(e)), "workflow_job")

NoRequest == [Request("", Body("", 0, FALSE, FALSE, EvZero), <<>>, "") EXCEPT !.remote = ""]

\* Every combination of method, body, signature and event type.
AllBodies ==
    {BodyOf(EvApp), BodyOf(EvAppLabels), BodyOf(EvCompleted), BodyOf(EvNoLabel),
     BodyMalformed, BodyFull, BodyOversized, BodyBroken}

AllRequests ==
    UNION {{Request(m, b, s, ty) :
                m \in {"POST", "GET"}, s \in SigsFor(b), ty \in {"workflow_job", "push"}} :
           b \in AllBodies}

\* The requests of the concurrent specification: GitHub's deliveries of two
\* queued events, and a request with a forged signature.
CoreRequests ==
    {Delivery(EvApp), Delivery(EvBadOwner),
     Request("POST", BodyOf(EvApp), SigWrongKey(BodyOf(EvApp)), "workflow_job")}

----------------------------------------------------------------------------
(* ServeHTTP: the checks that read nothing but the request *)

\* A faulty verifier: it looks at the prefix and never compares the digests.
VerifyPrefixOnly(raw, signature, secret) == HasPrefix(signature, sSha256)

\* VerifyWebhookSignature(payload, signature, secret, clientIP)
VerifyWebhookSignature(raw, signature, secret) ==
    IF ~HasPrefix(signature, sSha256) THEN FALSE
    ELSE SubSeq(signature, Len(sSha256) + 1, Len(signature)) = HmacHex(secret, raw)

\* clientIP := r.Header.Get("X-Forwarded-For"), or r.RemoteAddr when it is empty
ClientIP(r) == IF r.xff = "" THEN r.remote ELSE r.xff

\* A faulty verifier: only the malformed signature is logged.
VerifyLogFormatOnly(raw, signature, secret, clientIP) ==
    IF ~HasPrefix(signature, sSha256)
    THEN <<[msg |-> "invalid signature format", from |-> clientIP]>>
    ELSE <<>>

\* The lines VerifyWebhookSignature writes to the log.
VerifyLog(raw, signature, secret, clientIP) ==
    IF ~HasPrefix(signature, sSha256)
    THEN <<[msg |-> "invalid signature format", from |-> clientIP]>>
    ELSE IF ~(SubSeq(signature, Len(sSha256) + 1, Len(signature)) = HmacHex(secret, raw))
    THEN <<[msg |-> "signature mismatch", from |-> clientIP]>>
    ELSE <<>>

\* io.ReadAll(http.MaxBytesReader(w, r.Body, maxBodySize)) returns an error
ReadAllFails(b) == b.readErr \/ b.size > maxBodySize

\* A faulty label filter: any label at all is taken for the required one.
hasAnyLabel(labels) == Len(labels) > 0

\* Handler.hasRequiredLabel
hasRequiredLabel(labels) ==
    \E i \in DOMAIN labels : EqualFold(labels[i], requiredLabel)

\* A faulty ServeHTTP: the body is parsed before the event type is looked at.
PreCheckParseFirst(r) ==
    IF r.method # "POST" THEN <<405>>
    ELSE IF ReadAllFails(r.body) THEN <<400>>
    ELSE IF ~VerifyWebhookSignature(r.body.raw, r.sig, webhookSecret) THEN <<401>>
    ELSE IF ~r.body.wellformed THEN <<400>>
    ELSE IF r.evtype # "workflow_job" THEN <<200>>
    ELSE IF r.body.event.action # "queued" THEN <<200>>
    ELSE IF ~hasRequiredLabel(r.body.event.labels) THEN <<200>>
    ELSE <<>>

\* The response codes written by ServeHTTP before it reaches the rate
\* limiter: <<>> when every check passed, else the code of the first check
\* that failed.
PreCheck(r) ==
    IF r.method # "POST" THEN <<405>>
    ELSE IF ReadAllFails(r.body) THEN <<400>>
    ELSE IF ~VerifyWebhookSignature(r.body.raw, r.sig, webhookSecret) THEN <<401>>
    ELSE IF r.evtype # "workflow_job" THEN <<200>>
    ELSE IF ~r.body.wellformed THEN <<400>>
    ELSE IF r.body.event.action # "queued" THEN <<200>>
    ELSE IF ~hasRequiredLabel(r.body.event.labels) THEN <<200>>
    ELSE <<>>

----------------------------------------------------------------------------
(* State of a slot *)

IdleHandler ==
    [pc |-> "idle", req |-> NoRequest, tnow |-> 0, valid |-> <<>>,
     allowed |-> FALSE, admission |-> 0, resp |-> <<>>, launched |-> 0,
     log |-> <<>>]

NoCalls == [jwt |-> 0, inst |-> 0, reg |-> 0, put |-> 0, create |-> 0]

\* digitalocean.RunnerParams, before provisionRunner has filled it in
NoParams ==
    [RunnerName |-> <<>>, RunnerTokenSSMParam |-> <<>>, RunnerLabels |-> <<>>,
     RunnerOrg |-> <<>>, RunnerRepo |-> <<>>, DOToken |-> <<>>,
     RunnerVersion |-> <<>>, CallbackSecretSSMParam |-> <<>>, CallbackURL |-> <<>>]

\* The goroutine's locals, and the record of what it asked of GitHub
\* (instToken, regAuth, regToken), of the parameter store (putName, putParam,
\* putValue) and of DigitalOcean (createName, createParams, dropletID), and
\* of what they answered (instResp, regResp, putResp, createResp).
NoTask ==
    [pc |-> "none", name |-> <<>>, nameTime |-> 0, calls |-> NoCalls,
     putName |-> <<>>, createName |-> <<>>, failed |-> FALSE, outcome |-> "",
     attempt |-> <<>>, instToken |-> <<>>, regAuth |-> <<>>, regToken |-> <<>>,
     instResp |-> "", regResp |-> "", putResp |-> "", createResp |-> "",
     putParam |-> <<>>, putValue |-> <<>>, createParams |-> NoParams,
     dropletID |-> 0]

\* No callback has been served yet.  Of a served callback cb keeps the
\* request, the response, the ids it asked the provider to delete and the
\* droplets the provider deleted for it.
NoCallback ==
    [req |-> [method |-> "", secret |-> "", body |-> [size |-> 0, readErr |-> FALSE,
                                                       wellformed |-> FALSE, id |-> 0]],
     resp |-> <<>>, deletes |-> <<>>, gone |-> {}]

\* The reaper is not running.
IdleReaper ==
    [pc |-> "idle", listing |-> <<>>, i |-> 0, cutoff |-> 0, deleted |-> 0,
     commands |-> <<>>, result |-> ""]

EventOf(p) == h[p].req.body.event

\* The goroutines launched by ServeHTTP that have not ended yet.
Running == {p \in Slots : t[p].pc \notin {"none", "finished"}}

\* The state NewHandler leaves, whatever the configuration.
Started ==
    /\ now = 0
    /\ mu = 0
    /\ buckets = [k \in RepoKeys |-> <<>>]
    /\ workerPool = 0
    /\ h = [p \in Slots |-> IdleHandler]
    /\ t = [p \in Slots |-> NoTask]
    /\ admitted = [k \in RepoKeys |-> <<>>]
    /\ ssm = {}
    /\ provider = [droplets |-> {}, lastID |-> 0]
    /\ cb = NoCallback
    /\ reaper = IdleReaper

Init == cfg = TightConfig /\ Started

InitRoomy == cfg = RoomyConfig /\ Started

InitNoSecret == cfg = NoSecretConfig /\ Started

----------------------------------------------------------------------------
(* The clock *)

\* A long jump of the clock: one tick short of the rate limiter's window.
JumpTicks == WindowTicks - 1

\* The clock stops once a window and MaxFine ticks have gone by.
MaxTime == JumpTicks + MaxFine

Tick ==
    /\ (now % JumpTicks) < MaxFine
    /\ now' = now + 1
    /\ UNCHANGED <<mu, buckets, workerPool, h, t, admitted, ssm, provider, cb, reaper, cfg>>

Jump ==
    /\ now + JumpTicks <= MaxTime
    /\ now' = now + JumpTicks
    /\ UNCHANGED <<mu, buckets, workerPool, h, t, admitted, ssm, provider, cb, reaper, cfg>>

\* time.Now().Unix()
Unix(ticks) == StartUnix + (ticks \div TicksPerSec)

----------------------------------------------------------------------------
(* ServeHTTP *)

\* A request arrives and takes the lowest free slot.  ServeHTTP runs the
\* checks that read only the request: it answers at once if one fails, and
\* goes on to the rate limiter otherwise.
ServeHTTP(p, r) ==
    /\ h[p].pc = "idle"
    /\ \A q \in Slots : q < p => h[q].pc # "idle"
    /\ LET pre == PreCheck(r)
           log == IF r.method # "POST" \/ ReadAllFails(r.body) THEN <<>>
                  ELSE VerifyLog(r.body.raw, r.sig, webhookSecret, ClientIP(r))
       IN  h' = [h EXCEPT ![p] =
                IF pre # <<>>
                THEN [IdleHandler EXCEPT !.pc = "done", !.req = r, !.resp = pre,
                                         !.log = log]
                ELSE [IdleHandler EXCEPT !.pc = "lock", !.req = r, !.log = log]]
    /\ UNCHANGED <<now, mu, buckets, workerPool, t, admitted, ssm, provider, cb, reaper, cfg>>

\* A faulty mutex: Lock returns whether or not the mutex is held.
MutexAlwaysFree(m) == TRUE

\* sync.Mutex: Lock returns only when no goroutine holds the mutex.
MutexFree(m) == m = 0

\* rl.mu.Lock()
AllowLock(p) ==
    /\ h[p].pc = "lock"
    /\ MutexFree(mu)
    /\ mu' = p
    /\ h' = [h EXCEPT ![p].pc = "prune"]
    /\ UNCHANGED <<now, buckets, workerPool, t, admitted, ssm, provider, cb, reaper, cfg>>

\* A faulty comparison: an entry exactly one window old still counts.
AfterOrEqual(ts, cutoff) == ts >= cutoff

\* t.After(cutoff), cutoff = now.Add(-rl.window)
After(ts, cutoff) == ts > cutoff

\* The loop of allow that keeps the entries still inside the window.
Prune(bucket, tnow) ==
    SelectSeq(bucket, LAMBDA ts : After(ts, tnow - WindowTicks))

\* A faulty limiter: every repository is counted in the bucket of one.
OneKeyForAll(e) == EvApp.fullName

\* repoKey := event.Repo.FullName
RepoKey(e) == e.fullName

\* now := time.Now() and the pruning loop, under the lock
AllowPrune(p) ==
    /\ h[p].pc = "prune"
    /\ mu = p
    /\ h' = [h EXCEPT ![p].pc = "record",
                      ![p].tnow = now,
                      ![p].valid = Prune(buckets[RepoKey(EventOf(p))], now)]
    /\ UNCHANGED <<now, mu, buckets, workerPool, t, admitted, ssm, provider, cb, reaper, cfg>>

\* len(valid) >= rl.limit
OverLimit(valid) == Len(valid) >= RateLimit

\* A faulty allow: it returns without the Unlock.
UnlockForgotten(m) == m

\* defer rl.mu.Unlock()
Unlock(m) == 0

\* A faulty refusal: the refused attempt is recorded too.
RefusedRecorded(valid, tnow) == Append(valid, tnow)

\* rl.buckets[repo] = valid, on a refusal
Refused(valid, tnow) == valid

\* A faulty admission: the admitted attempt is not recorded.
AdmittedUnrecorded(valid, tnow) == valid

\* rl.buckets[repo] = append(valid, now), on an admission
Admitted(valid, tnow) == Append(valid, tnow)

\* The decision of allow, the write of the bucket and the deferred Unlock;
\* on a refusal ServeHTTP answers 429.
AllowRecord(p) ==
    LET key == RepoKey(EventOf(p))
        repo == EventOf(p).fullName
    IN
    /\ h[p].pc = "record"
    /\ mu = p
    /\ mu' = Unlock(mu)
    /\ IF OverLimit(h[p].valid)
       THEN /\ buckets' = [buckets EXCEPT ![key] = Refused(h[p].valid, h[p].tnow)]
            /\ h' = [h EXCEPT ![p].pc = "done", ![p].resp = @ \o <<429>>,
                              ![p].tnow = 0, ![p].valid = <<>>]
            /\ UNCHANGED admitted
       ELSE /\ buckets' = [buckets EXCEPT ![key] = Admitted(h[p].valid, h[p].tnow)]
            /\ h' = [h EXCEPT ![p].pc = "gate", ![p].allowed = TRUE,
                              ![p].admission = Len(admitted[repo]) + 1,
                              ![p].tnow = 0, ![p].valid = <<>>]
            /\ admitted' = [admitted EXCEPT ![repo] = Append(@, h[p].tnow)]
    /\ UNCHANGED <<now, workerPool, t, ssm, provider, cb, reaper, cfg>>

\* A faulty gate: the send never finds the buffer full.
PoolAlwaysRoom(pool) == TRUE

\* A faulty gate: the buffer holds one token more than the capacity.
PoolRoomOffByOne(pool) == pool <= Capacity

\* The provisioning attempt of the request in slot p: the admission of its
\* repository that it is, written as text.
AttemptOf(p) == Itoa(h[p].admission) \o <<"@">> \o EventOf(p).fullName

\* case h.workerPool <- struct{}{}: the send proceeds iff the buffer has room
PoolHasRoom(pool) == pool < Capacity

\* The select on the worker pool: launch the goroutine and answer 202, or
\* answer 503.
Gate(p) ==
    /\ h[p].pc = "gate"
    /\ IF PoolHasRoom(workerPool)
       THEN /\ workerPool' = workerPool + 1
            /\ t' = [t EXCEPT ![p] = [NoTask EXCEPT !.pc = "token",
                                                     !.attempt = AttemptOf(p)]]
            /\ h' = [h EXCEPT ![p].pc = "done", ![p].resp = @ \o <<202>>,
                              ![p].launched = @ + 1]
       ELSE /\ h' = [h EXCEPT ![p].pc = "done", ![p].resp = @ \o <<503>>]
            /\ UNCHANGED <<workerPool, t>>
    /\ UNCHANGED <<now, mu, buckets, admitted, ssm, provider, cb, reaper, cfg>>

----------------------------------------------------------------------------
(* provisionRunner, the goroutine launched by ServeHTTP *)

\* A faulty runnerName: the name is never cut.
RunnerNameUncut(repo, id, unix) ==
    <<"e","p","h","-">> \o repo \o <<"-">> \o Itoa(id) \o <<"-">> \o Itoa(unix)

\* runnerName: fmt.Sprintf("eph-%s-%d-%d", repo, id, time.Now().Unix()),
\* cut to its first 63 characters
RunnerName(repo, id, unix) ==
    LET full == <<"e","p","h","-">> \o repo \o <<"-">> \o Itoa(id) \o <<"-">> \o Itoa(unix)
    IN  IF Len(full) > MaxNameLen THEN SubSeq(full, 1, MaxNameLen) ELSE full

\* The validation of owner and repo that opens provisionRunner.
ValidOwnerRepo(e) == safeNameRegex(e.owner) /\ safeNameRegex(e.name)

\* A faulty release: the token comes back only when the runner was created.
PoolKeptOnFailure(pool, outcome) == IF outcome = "provisioned" THEN pool - 1 ELSE pool

\* defer func() { <-h.workerPool }(): the receive takes one token back.
PoolAfterRelease(pool, outcome) == pool - 1

\* Every return of provisionRunner ends the goroutine: its deferred function
\* gives the pool token back.  What the attempt did stays in calls, putName
\* and createName until the slot is recycled.
EndTask(task, outcome, failed) ==
    [task EXCEPT !.pc = "finished", !.outcome = outcome, !.failed = failed,
                 !.name = <<>>]

sGhs == <<"g","h","s","-">>
sReg == <<"r","e","g","-">>

\* A faulty GitHub client: one token per kind is kept and handed to every
\* attempt.
ReusedToken(prefix, attempt) == prefix

\* result.Token: the token GitHub makes in answer to one exchange; no two
\* exchanges are answered with the same token.
IssuedToken(prefix, attempt) == prefix \o attempt

\* A faulty chain: the status of the registration-token response is ignored.
ChainIgnoresStatus(instOk, regOk) ==
    IF ~instOk THEN "installation token failed" ELSE "ok"

\* The errors of GenerateRepoRunnerToken: InstallationToken's error ends it
\* before the registration-token request; a response other than 201 Created
\* to that request is its own error.
ChainResult(instOk, regOk) ==
    IF ~instOk THEN "installation token failed"
    ELSE IF ~regOk THEN "registration token failed"
    ELSE "ok"

\* The input validation, then GenerateRepoRunnerToken: App.InstallationToken
\* signs a JWT and exchanges it for an installation token (instOk), which is
\* then presented to get the repository's registration token (regOk).
ProvisionToken(p, instOk, regOk) ==
    /\ t[p].pc = "token"
    /\ LET signed == [t[p] EXCEPT !.calls.jwt = @ + 1, !.calls.inst = @ + 1,
                                  !.instResp = IF instOk THEN "created" ELSE "error",
                                  !.instToken = IF instOk
                                                THEN IssuedToken(sGhs, t[p].attempt)
                                                ELSE <<>>]
           asked == [signed EXCEPT !.calls.reg = @ + 1,
                                   !.regAuth = signed.instToken,
                                   !.regResp = IF regOk THEN "created" ELSE "error",
                                   !.regToken = IF regOk
                                                THEN IssuedToken(sReg, t[p].attempt)
                                                ELSE <<>>]
           result == ChainResult(instOk, regOk)
       IN  IF ~ValidOwnerRepo(EventOf(p))
           THEN /\ t' = [t EXCEPT ![p] = EndTask(@, "invalid owner/repo", FALSE)]
                /\ workerPool' = PoolAfterRelease(workerPool, "invalid owner/repo")
           ELSE IF result = "installation token failed"
           THEN /\ t' = [t EXCEPT ![p] = EndTask(signed, result, TRUE)]
                /\ workerPool' = PoolAfterRelease(workerPool, result)
           ELSE IF result = "registration token failed"
           THEN /\ t' = [t EXCEPT ![p] = EndTask(asked, result, TRUE)]
                /\ workerPool' = PoolAfterRelease(workerPool, result)
           ELSE /\ t' = [t EXCEPT ![p] = [asked EXCEPT !.pc = "put"]]
                /\ UNCHANGED workerPool
    /\ UNCHANGED <<now, mu, buckets, h, admitted, ssm, provider, cb, reaper, cfg>>

sTokenPath == <<"/","g","i","t","h","u","b","-","r","u","n","n","e","r","s","/","t","o","k","e","n","s","/">>

\* tokenParamName: fmt.Sprintf("/github-runners/tokens/%s", runnerName)
TokenParamName(runnerName) == sTokenPath \o runnerName

\* A faulty parameter store client: the write is acknowledged and lost.
PutParameterLost(store, name, value) == store

\* ssmClient.PutParameter with Overwrite: true: the parameter has the new
\* value, whatever it held before.
PutParameter(store, name, value) ==
    {e \in store : e.name # name} \cup {[name |-> name, value |-> value]}

\* The runner name is made, and the token is stored under it in the
\* parameter store (ssmClient.PutParameter).
ProvisionPutParameter(p, ok) ==
    /\ t[p].pc = "put"
    /\ LET e == EventOf(p)
           name == RunnerName(e.name, e.id, Unix(now))
           called == [t[p] EXCEPT !.name = name, !.nameTime = now,
                                  !.putName = name, !.calls.put = @ + 1,
                                  !.putParam = TokenParamName(name),
                                  !.putValue = t[p].regToken,
                                  !.putResp = IF ok THEN "ok" ELSE "error"]
       IN  IF ok
           THEN /\ t' = [t EXCEPT ![p] = [called EXCEPT !.pc = "create"]]
                /\ ssm' = PutParameter(ssm, called.putParam, called.putValue)
                /\ UNCHANGED workerPool
           ELSE /\ t' = [t EXCEPT ![p] = EndTask(called, "put parameter failed", TRUE)]
                /\ workerPool' = PoolAfterRelease(workerPool, "put parameter failed")
                /\ UNCHANGED ssm
    /\ UNCHANGED <<now, mu, buckets, h, admitted, provider, cb, reaper, cfg>>

\* strings.Join
RECURSIVE Join(_, _)
Join(list, sep) ==
    IF list = <<>> THEN <<>>
    ELSE IF Len(list) = 1 THEN list[1]
    ELSE list[1] \o sep \o Join(Tail(list), sep)

\* The loop over event.WorkflowJob.Labels: each label is trimmed and kept if
\* what is left matches safeNameRegex.
SafeLabels(labels) ==
    SelectSeq([i \in DOMAIN labels |-> TrimSpace(labels[i])], safeNameRegex)

\* A faulty provisionRunner: the droplet is given the token itself.
RunnerParamsWithToken(task, e) ==
    [RunnerName |-> task.name,
     RunnerTokenSSMParam |-> task.putValue,
     RunnerLabels |-> Join(SafeLabels(e.labels), <<",">>),
     RunnerOrg |-> e.owner,
     RunnerRepo |-> FullNameOf(e.owner, e.name),
     DOToken |-> doToken,
     RunnerVersion |-> runnerVersion,
     CallbackSecretSSMParam |-> callbackSecretSSMPath,
     CallbackURL |-> callbackURL]

\* params := digitalocean.RunnerParams{...}
RunnerParamsOf(task, e) ==
    [RunnerName |-> task.name,
     RunnerTokenSSMParam |-> task.putParam,
     RunnerLabels |-> Join(SafeLabels(e.labels), <<",">>),
     RunnerOrg |-> e.owner,
     RunnerRepo |-> FullNameOf(e.owner, e.name),
     DOToken |-> doToken,
     RunnerVersion |-> runnerVersion,
     CallbackSecretSSMParam |-> callbackSecretSSMPath,
     CallbackURL |-> callbackURL]

\* A faulty tag list: the runner droplets lack the tag the reaper lists by.
UntaggedRunner == {"ephemeral"}

\* Tags: []string{"github-runner", "ephemeral"}
RunnerTags == {"github-runner", "ephemeral"}

\* c.client.Droplets.Create: the provider makes a droplet with the next id,
\* stamped with the second of its creation; rfc3339 tells whether the
\* Created string the provider returns for it is well formed.
CreateDroplet(prov, name, unix) ==
    [droplets |-> prov.droplets \cup
                    {[id |-> prov.lastID + 1, name |-> name,
                      created |-> unix, rfc3339 |-> TRUE, tags |-> RunnerTags]},
     lastID |-> prov.lastID + 1]

\* The labels are sanitised, owner/repo is checked against repoRegex, and
\* doClient.CreateRunner is called with the parameters of the droplet.
ProvisionCreateRunner(p, ok) ==
    /\ t[p].pc = "create"
    /\ LET e == EventOf(p)
           params == RunnerParamsOf(t[p], e)
           called == [t[p] EXCEPT !.createName = params.RunnerName,
                                  !.createParams = params,
                                  !.calls.create = @ + 1,
                                  !.createResp = IF ok THEN "ok" ELSE "error",
                                  !.dropletID = IF ok THEN provider.lastID + 1 ELSE 0]
           outcome == IF ~repoRegex(FullNameOf(e.owner, e.name)) THEN "invalid repo format"
                      ELSE IF ok THEN "provisioned" ELSE "create failed"
       IN  /\ t' = [t EXCEPT ![p] =
                      IF outcome = "invalid repo format"
                      THEN EndTask(@, outcome, FALSE)
                      ELSE EndTask(called, outcome, ~ok)]
           /\ provider' = IF outcome = "provisioned"
                          THEN CreateDroplet(provider, params.RunnerName, Unix(now))
                          ELSE provider
           /\ workerPool' = PoolAfterRelease(workerPool, outcome)
    /\ UNCHANGED <<now, mu, buckets, h, admitted, ssm, cb, reaper, cfg>>

\* The request and its goroutine are over: their slot is free again.
Recycle(p) ==
    /\ h[p].pc = "done"
    /\ t[p].pc \in {"none", "finished"}
    /\ h' = [h EXCEPT ![p] = IdleHandler]
    /\ t' = [t EXCEPT ![p] = NoTask]
    /\ UNCHANGED <<now, mu, buckets, workerPool, admitted, ssm, provider, cb, reaper, cfg>>

----------------------------------------------------------------------------
(* The compute provider's delete, used by the callback and by the reaper *)

DropletExists(prov, id) == \E d \in prov.droplets : d.id = id

\* c.client.Droplets.Delete returns no error: the provider is up (ok) and
\* has a droplet with this id.
DeleteSucceeds(prov, id, ok) == ok /\ DropletExists(prov, id)

\* Client.DeleteDroplet, when it succeeds
DeleteDroplet(prov, id) == [prov EXCEPT !.droplets = {d \in @ : d.id # id}]

----------------------------------------------------------------------------
(* HandleDestroy, the callback of a runner droplet *)

CallbackBody(size, readErr, wellformed, id) ==
    [size |-> size, readErr |-> readErr, wellformed |-> wellformed, id |-> id]

CallbackRequest(method, secret, body) ==
    [method |-> method, secret |-> secret, body |-> body]

\* subtle.ConstantTimeCompare(a, b) == 1
ConstantTimeCompare(a, b) == a = b

\* A faulty check of the shared secret: the secrets are compared and an
\* empty one is not refused first.
UnauthorizedByCompare(secret) == ~ConstantTimeCompare(secret, callbackSecret)

\* A faulty check of the shared secret: any secret that is not empty passes.
UnauthorizedIfEmpty(secret) == secret = ""

\* secret == "" || subtle.ConstantTimeCompare(secret, h.callbackSecret) != 1
Unauthorized(secret) == secret = "" \/ ~ConstantTimeCompare(secret, callbackSecret)

\* A faulty handler: an id below one is refused like the zero id.
CallbackCheckPositive(r) ==
    IF r.method # "POST" THEN <<405>>
    ELSE IF Unauthorized(r.secret) THEN <<401>>
    ELSE IF r.body.readErr \/ r.body.size > maxCallbackBody THEN <<400>>
    ELSE IF ~r.body.wellformed \/ r.body.id <= 0 THEN <<400>>
    ELSE <<>>

\* The response codes HandleDestroy writes before it calls the provider: <<>>
\* when every check passed.
CallbackCheck(r) ==
    IF r.method # "POST" THEN <<405>>
    ELSE IF Unauthorized(r.secret) THEN <<401>>
    ELSE IF r.body.readErr \/ r.body.size > maxCallbackBody THEN <<400>>
    ELSE IF ~r.body.wellformed \/ r.body.id = 0 THEN <<400>>
    ELSE <<>>

\* One call of HandleDestroy, from the request to the response.
HandleDestroy(r, ok) ==
    /\ LET pre == CallbackCheck(r)
           id == r.body.id
       IN  IF pre # <<>>
           THEN /\ cb' = [req |-> r, resp |-> pre, deletes |-> <<>>, gone |-> {}]
                /\ UNCHANGED provider
           ELSE IF DeleteSucceeds(provider, id, ok)
           THEN /\ cb' = [req |-> r, resp |-> <<200>>, deletes |-> <<id>>,
                           gone |-> {d \in provider.droplets : d.id = id}]
                /\ provider' = DeleteDroplet(provider, id)
           ELSE /\ cb' = [req |-> r, resp |-> <<500>>, deletes |-> <<id>>, gone |-> {}]
                /\ UNCHANGED provider
    /\ UNCHANGED <<now, mu, buckets, workerPool, h, t, admitted, ssm, reaper, cfg>>

----------------------------------------------------------------------------
(* The reaper: main of cmd/reaper and Client.CleanupOldDroplets *)

MaxAgeTicks == maxAgeMin * 60 * TicksPerSec

\* time.Parse(time.RFC3339, d.Created), in ticks of the clock
\* The zero time.Time, in ticks of the clock: earlier than every cutoff.
ZeroTime == -2000000000

\* A faulty parse: a timestamp that cannot be parsed counts as the latest time.
ParseCreatedOrLatest(created, rfc3339) ==
    IF rfc3339 THEN (created - StartUnix) * TicksPerSec ELSE 0 - ZeroTime

\* created, _ := time.Parse(time.RFC3339, d.Created): the error is dropped,
\* and with it comes the zero time.
ParseCreated(created, rfc3339) ==
    IF rfc3339 THEN (created - StartUnix) * TicksPerSec ELSE ZeroTime

\* A faulty comparison: a droplet exactly maxAge old is stale already.
BeforeOrEqual(a, b) == a <= b

\* created.Before(cutoff)
Before(a, b) == a < b

RECURSIVE ByID(_)
ByID(S) ==
    IF S = {} THEN <<>>
    ELSE LET d == CHOOSE d \in S : \A e \in S : d.id <= e.id
         IN  <<d>> \o ByID(S \ {d})

\* Droplets.ListByTag(ctx, "github-runner", opt)
ListByTag(prov, tag) == ByID({d \in prov.droplets : tag \in d.tags})

\* ListRunnerDroplets and cutoff := time.Now().Add(-maxAge); when the listing
\* fails the run ends with its error.
ReaperList(ok) ==
    /\ reaper.pc = "idle"
    /\ reaper' = IF ok
                 THEN [IdleReaper EXCEPT !.pc = "loop",
                                         !.listing = ListByTag(provider, "github-runner"),
                                         !.i = 1,
                                         !.cutoff = now - MaxAgeTicks]
                 ELSE [IdleReaper EXCEPT !.pc = "done", !.result = "error"]
    /\ UNCHANGED <<now, mu, buckets, workerPool, h, t, admitted, ssm, provider, cb, cfg>>

\* A faulty loop: the first delete that fails ends the run with its error.
AbortOnFailure(r, id, succeeded) ==
    IF succeeded
    THEN [r EXCEPT !.i = @ + 1, !.deleted = @ + 1, !.commands = Append(@, id)]
    ELSE [r EXCEPT !.pc = "done", !.result = "error", !.commands = Append(@, id)]

\* The run after DeleteDroplet(ctx, d.ID) returned: a failure is logged and
\* the loop continues, a success is counted.
AfterDelete(r, id, succeeded) ==
    IF succeeded
    THEN [r EXCEPT !.i = @ + 1, !.deleted = @ + 1, !.commands = Append(@, id)]
    ELSE [r EXCEPT !.i = @ + 1, !.commands = Append(@, id)]

\* One turn of the loop over the listing: a droplet created before the cutoff
\* is deleted, and counted when the delete succeeds.
ReaperVisit(ok) ==
    /\ reaper.pc = "loop"
    /\ reaper.i <= Len(reaper.listing)
    /\ LET d == reaper.listing[reaper.i] IN
       IF Before(ParseCreated(d.created, d.rfc3339), reaper.cutoff)
       THEN /\ reaper' = AfterDelete(reaper, d.id, DeleteSucceeds(provider, d.id, ok))
            /\ provider' = IF DeleteSucceeds(provider, d.id, ok)
                           THEN DeleteDroplet(provider, d.id)
                           ELSE provider
       ELSE /\ reaper' = [reaper EXCEPT !.i = @ + 1]
            /\ UNCHANGED provider
    /\ UNCHANGED <<now, mu, buckets, workerPool, h, t, admitted, ssm, cb, cfg>>

\* return deleted, nil
ReaperReturn ==
    /\ reaper.pc = "loop"
    /\ reaper.i > Len(reaper.listing)
    /\ reaper' = [reaper EXCEPT !.pc = "done", !.result = "ok"]
    /\ UNCHANGED <<now, mu, buckets, workerPool, h, t, admitted, ssm, provider, cb, cfg>>

\* The process exits; its next run starts from nothing.
ReaperExit ==
    /\ reaper.pc = "done"
    /\ reaper' = IdleReaper
    /\ UNCHANGED <<now, mu, buckets, workerPool, h, t, admitted, ssm, provider, cb, cfg>>

\* Client.CreateRunner, called for a job of org/app and answered with
\* success: the provider has one more runner droplet.
CreateRunner ==
    /\ provider' = CreateDroplet(provider, RunnerName(sApp, 7, Unix(now)), Unix(now))
    /\ UNCHANGED <<now, mu, buckets, workerPool, h, t, admitted, ssm, cb, reaper, cfg>>

\* A runner droplet whose Created string the provider returns garbled.
GarbledCreate ==
    /\ provider' = [CreateDroplet(provider, RunnerName(sApp, 7, Unix(now)), Unix(now))
                       EXCEPT !.droplets = provider.droplets \cup
                                  {[d EXCEPT !.rfc3339 = FALSE] : d \in @ \ provider.droplets}]
    /\ UNCHANGED <<now, mu, buckets, workerPool, h, t, admitted, ssm, cb, reaper, cfg>>

\* Another user of the account makes a droplet that is not a runner.
OtherCreate ==
    /\ provider' = [droplets |-> provider.droplets \cup
                                   {[id |-> provider.lastID + 1, name |-> <<"w","e","b">>,
                                     created |-> Unix(now), rfc3339 |-> TRUE,
                                     tags |-> {"web"}]},
                    lastID |-> provider.lastID + 1]
    /\ UNCHANGED <<now, mu, buckets, workerPool, h, t, admitted, ssm, cb, reaper, cfg>>

\* The clock of the runs with the reaper: one step of maxAge, then steps of
\* a sixth of maxAge, up to one and a half maxAge.
ShortStep == MaxAgeTicks \div 6
LastTime == MaxAgeTicks + (MaxAgeTicks \div 2)

AgeLong ==
    /\ now = 0
    /\ now' = MaxAgeTicks
    /\ UNCHANGED <<mu, buckets, workerPool, h, t, admitted, ssm, provider, cb, reaper, cfg>>

AgeShort ==
    /\ now >= MaxAgeTicks
    /\ now + ShortStep <= LastTime
    /\ now' = now + ShortStep
    /\ UNCHANGED <<mu, buckets, workerPool, h, t, admitted, ssm, provider, cb, reaper, cfg>>

----------------------------------------------------------------------------
(* The specifications *)

\* The steps of the handler and of its goroutine in slot p; oks are the
\* outcomes the collaborators (GitHub, the parameter store, DigitalOcean)
\* may give.
SlotStep(p, oks) ==
    \/ AllowLock(p)
    \/ AllowPrune(p)
    \/ AllowRecord(p)
    \/ Gate(p)
    \/ \E instOk, regOk \in oks : ProvisionToken(p, instOk, regOk)
    \/ \E ok \in oks : ProvisionPutParameter(p, ok)
    \/ \E ok \in oks : ProvisionCreateRunner(p, ok)
    \/ Recycle(p)

\* The steps in slot p while GitHub refuses every token exchange: the
\* goroutine ends in GenerateRepoRunnerToken, before it writes anything.
SlotStepOffline(p) ==
    \/ AllowLock(p)
    \/ AllowPrune(p)
    \/ AllowRecord(p)
    \/ Gate(p)
    \/ ProvisionToken(p, FALSE, FALSE)
    \/ Recycle(p)

\* A burst of requests, within one reading of the clock.
Next ==
    \/ \E p \in Slots, r \in CoreRequests : ServeHTTP(p, r)
    \/ \E p \in Slots : SlotStep(p, BOOLEAN)

Spec == Init /\ [][Next]_vars

\* Deliveries for one repository while the clock runs.
NextClock ==
    \/ Tick
    \/ Jump
    \/ \E p \in Slots : ServeHTTP(p, Delivery(EvApp))
    \/ \E p \in Slots : SlotStepOffline(p)

SpecClock == Init /\ [][NextClock]_vars

\* No handler is between its first check and its answer, and every answered
\* request that launched nothing has left its slot.
Quiet == \A q \in Slots : h[q].pc = "idle" \/ h[q].resp = <<202>>

\* Every request has its answer and every goroutine has ended.
Settled ==
    \A q \in Slots :
        \/ h[q].pc = "idle"
        \/ h[q].pc = "done" /\ t[q].pc \in {"none", "finished"}

NameRequests == {Delivery(EvApp), Delivery(EvDevApp), Delivery(EvLong)}

\* Deliveries for several repositories while the clock runs, each one
\* processed to its end before the next arrives; what each goroutine did
\* stays on record.
NextNames ==
    \/ Tick
    \/ Jump
    \/ Settled /\ \E p \in Slots, r \in NameRequests : ServeHTTP(p, r)
    \/ \E p \in Slots : AllowLock(p)
    \/ \E p \in Slots : AllowPrune(p)
    \/ \E p \in Slots : AllowRecord(p)
    \/ \E p \in Slots : Gate(p)
    \/ \E p \in Slots : ProvisionToken(p, TRUE, TRUE)
    \/ \E p \in Slots : ProvisionPutParameter(p, TRUE)
    \/ \E p \in Slots : ProvisionCreateRunner(p, TRUE)

SpecNames == Init /\ [][NextNames]_vars

ProvisionRequests ==
    {Delivery(EvApp), Delivery(EvAppLabels), Delivery(EvDevApp), Delivery(EvBadOwner)}

\* Deliveries for several repositories within one reading of the clock, each
\* processed to its end before the next arrives, with collaborators that may
\* fail at every call; what each goroutine did stays on record.
NextProvision ==
    \/ Settled /\ \E p \in Slots, r \in ProvisionRequests : ServeHTTP(p, r)
    \/ \E p \in Slots : AllowLock(p)
    \/ \E p \in Slots : AllowPrune(p)
    \/ \E p \in Slots : AllowRecord(p)
    \/ \E p \in Slots : Gate(p)
    \/ \E p \in Slots, instOk, regOk \in BOOLEAN : ProvisionToken(p, instOk, regOk)
    \/ \E p \in Slots, ok \in BOOLEAN : ProvisionPutParameter(p, ok)
    \/ \E p \in Slots, ok \in BOOLEAN : ProvisionCreateRunner(p, ok)

SpecProvision == Init /\ [][NextProvision]_vars

\* Runner droplets are made while the clock runs, the first droplet of the
\* account may be someone else's, and the reaper runs again and again, with a
\* provider that may fail at every call.
NextReaper ==
    \/ AgeLong
    \/ AgeShort
    \/ provider.lastID = 0 /\ OtherCreate
    \/ provider.lastID < MaxDroplets /\ CreateRunner
    \/ \E ok \in BOOLEAN : ReaperList(ok)
    \/ \E ok \in BOOLEAN : ReaperVisit(ok)
    \/ ReaperReturn
    \/ ReaperExit

SpecReaper == Init /\ [][NextReaper]_vars

\* The calls of the callback: either method, no secret, a wrong one or the
\* right one, and a body that names a droplet, one that names none, one that
\* is not JSON, one of the largest size read, one a byte longer and one whose
\* read fails.
CallbackBodies ==
    {CallbackBody(16, FALSE, TRUE, id) : id \in -1 .. MaxDroplets}
        \cup {CallbackBody(16, FALSE, FALSE, 0),
              CallbackBody(maxCallbackBody, FALSE, TRUE, 1),
              CallbackBody(maxCallbackBody + 1, FALSE, TRUE, 1),
              CallbackBody(16, TRUE, TRUE, 1)}

CallbackRequests ==
    {CallbackRequest(m, s, b) : m \in {"POST", "GET"},
                                s \in {"", "guess", callbackSecret},
                                b \in CallbackBodies}

\* Droplets are made and the callback is called, with a provider that may
\* fail at every delete.
NextCallback ==
    \/ provider.lastID = 0 /\ OtherCreate
    \/ provider.lastID < MaxDroplets /\ CreateRunner
    \/ \E r \in CallbackRequests, ok \in BOOLEAN : HandleDestroy(r, ok)

SpecCallback == Init /\ [][NextCallback]_vars

\* The callback of the runner on droplet id, with the shared secret.
Goodbye(id) == CallbackRequest("POST", callbackSecret, CallbackBody(16, FALSE, TRUE, id))

\* The runner droplets of the runs that follow each droplet to its end
MaxRunners == MaxDroplets - 1

\* The whole life of the runner droplets: they are made while the clock runs,
\* the runner on a droplet may call back, which deletes the droplet, or never
\* do so, and the reaper runs again and again.
NextLifecycle ==
    \/ AgeLong
    \/ AgeShort
    \/ provider.lastID < MaxRunners /\ CreateRunner
    \/ \E id \in 1 .. MaxRunners :
          DropletExists(provider, id) /\ HandleDestroy(Goodbye(id), TRUE)
    \/ \E ok \in BOOLEAN : ReaperList(ok)
    \/ \E ok \in BOOLEAN : ReaperVisit(ok)
    \/ ReaperReturn
    \/ ReaperExit

\* The reaper visits droplet id and the provider deletes it.
ReaperDeletes(id) ==
    /\ DropletExists(provider, id)
    /\ ReaperVisit(TRUE)
    /\ ~DropletExists(provider', id)

\* The reaper is started again and again and no run of it hangs; the listing
\* succeeds again and again, and so does the delete of each droplet that is
\* tried again and again.
FairReaper ==
    /\ WF_vars(\E ok \in BOOLEAN : ReaperVisit(ok))
    /\ WF_vars(ReaperReturn)
    /\ WF_vars(ReaperExit)
    /\ SF_vars(ReaperList(TRUE))
    /\ \A id \in 1 .. MaxRunners : SF_vars(ReaperDeletes(id))

SpecLifecycle == Init /\ [][NextLifecycle]_vars /\ FairReaper

\* Requests with every kind of signature, straight from the caller and
\* through a proxy, and requests the verifier is never called for.
VerifyRequests ==
    LET direct == {Request(m, b, s, "workflow_job") :
                      m \in {"POST", "GET"}, b \in {BodyOf(EvApp), BodyBroken},
                      s \in SigsFor(BodyOf(EvApp))}
    IN  direct \cup {Forwarded(r, sForwardedFor) : r \in direct}

NextVerify ==
    \/ Quiet /\ \E p \in Slots, r \in VerifyRequests : ServeHTTP(p, r)
    \/ \E p \in Slots : SlotStepOffline(p)

SpecVerify == Init /\ [][NextVerify]_vars

\* Deliveries of one job of one repository, redelivered while the first is
\* still being provisioned, with a pool and a limit that let them through.
NextOverwrite ==
    \/ Tick
    \/ \E p \in Slots : ServeHTTP(p, Delivery(EvApp))
    \/ \E p \in Slots : AllowLock(p)
    \/ \E p \in Slots : AllowPrune(p)
    \/ \E p \in Slots : AllowRecord(p)
    \/ \E p \in Slots : Gate(p)
    \/ \E p \in Slots : ProvisionToken(p, TRUE, TRUE)
    \/ \E p \in Slots : ProvisionPutParameter(p, TRUE)
    \/ \E p \in Slots : ProvisionCreateRunner(p, TRUE)

SpecOverwrite == InitRoomy /\ [][NextOverwrite]_vars

\* The reaper in an account where the provider returns some creation
\* timestamps garbled.
NextGarbled ==
    \/ AgeLong
    \/ AgeShort
    \/ provider.lastID < MaxRunners /\ CreateRunner
    \/ provider.lastID < MaxRunners /\ GarbledCreate
    \/ \E ok \in BOOLEAN : ReaperList(ok)
    \/ \E ok \in BOOLEAN : ReaperVisit(ok)
    \/ ReaperReturn
    \/ ReaperExit

SpecGarbled == Init /\ [][NextGarbled]_vars

\* The callback of a handler whose callback secret was left empty.
SpecNoSecret == InitNoSecret /\ [][NextCallback]_vars

IntakeRequests == AllRequests \cup {Delivery(EvBadOwner)}

\* Requests of every shape, arriving one after the other.
NextIntake ==
    \/ Quiet /\ \E p \in Slots, r \in IntakeRequests : ServeHTTP(p, r)
    \/ \E p \in Slots : SlotStepOffline(p)

SpecIntake == Init /\ [][NextIntake]_vars

----------------------------------------------------------------------------
(* Properties *)

\* The X-Hub-Signature-256 header of r is "sha256=" followed by the HMAC of
\* r's raw body under the webhook secret.
SignatureMatches(r) == r.sig = sSha256 \o HmacHex(webhookSecret, r.body.raw)

\* The request in slot p launched nothing: no goroutine, hence no credential
\* request, no parameter write and no create call.
NothingLaunched(p) == h[p].launched = 0 /\ t[p] = NoTask

\* C1 as the specification states it: every request whose signature header
\* is missing or does not match the HMAC of its body is answered 401 and
\* launches nothing.
C1_BadSignatureAlways401 ==
    \A p \in Slots :
        (h[p].pc # "idle" /\ ~SignatureMatches(h[p].req))
            => (h[p].resp = <<401>> /\ NothingLaunched(p))

\* C1, amended: a request whose signature header is missing or does not match
\* launches nothing and is answered at once; the answer is 401 when the
\* request is a POST whose body was read within the size cap, 405 when it is
\* not a POST, and 400 when its body is oversized or unreadable.
C1_BadSignatureRejected ==
    \A p \in Slots :
        (h[p].pc # "idle" /\ ~SignatureMatches(h[p].req))
            => /\ h[p].pc = "done"
               /\ NothingLaunched(p)
               /\ h[p].resp =
                     IF h[p].req.method # "POST" THEN <<405>>
                     ELSE IF h[p].req.body.readErr \/ h[p].req.body.size > maxBodySize
                          THEN <<400>>
                     ELSE <<401>>

\* A POST with a readable body and a digest made with another key got 401.
C1_Witness ==
    \E p \in Slots :
        /\ h[p].pc = "done"
        /\ h[p].req.method = "POST"
        /\ h[p].req.sig = SigWrongKey(h[p].req.body)
        /\ h[p].resp = <<401>>

\* C2: the goroutines launched and not yet ended never outnumber the capacity
\* of the worker pool.
C2_PoolBound == Cardinality(Running) <= Capacity

\* The pool is full while a further admitted request stands at the gate.
C2_Witness ==
    /\ Cardinality(Running) = Capacity
    /\ \E p \in Slots : h[p].pc = "gate"

\* C3: an admitted request that reaches the gate while as many goroutines run
\* as the pool has room for is answered 503 and launches nothing; one that
\* reaches it while fewer run is answered 202 and launches one goroutine.
C3_FullPoolAnswers503 ==
    [][\A p \in Slots :
          (h[p].pc = "gate" /\ h'[p].pc = "done")
              => IF Cardinality(Running) >= Capacity
                 THEN /\ h'[p].resp = <<503>>
                      /\ h'[p].launched = 0
                      /\ t'[p] = NoTask
                      /\ Running' = Running
                 ELSE /\ h'[p].resp = <<202>>
                      /\ h'[p].launched = 1
                      /\ Running' = Running \cup {p}]_vars

\* MaxReq requests were admitted by the rate limiter and none of their
\* goroutines has ended: Capacity of them run, the others were answered 503.
C3_Witness ==
    /\ \A p \in Slots : h[p].pc = "done" /\ h[p].allowed
    /\ \A p \in Slots : t[p].pc # "finished"
    /\ Cardinality({p \in Slots : h[p].resp = <<202>> /\ p \in Running}) = Capacity
    /\ Cardinality({p \in Slots : h[p].resp = <<503>> /\ t[p] = NoTask}) = MaxReq - Capacity

\* C4: the pool holds exactly one token per goroutine that has not ended,
\* whatever the outcome of those that have: it is empty once all have ended,
\* and it has room again as soon as one of them ends.
C4_TokenReleased == workerPool = Cardinality(Running)

\* A goroutine ended on a failure of a collaborator, and the pool is full
\* again with goroutines launched since.
C4_Witness ==
    \E p \in Slots :
        /\ t[p].pc = "finished"
        /\ t[p].failed
        /\ Cardinality(Running) = Capacity
        /\ workerPool = Capacity

\* The admissions of repository key that lie less than one window before at.
RecentAdmissions(key, at) ==
    {i \in DOMAIN admitted[key] : at - admitted[key][i] < WindowTicks}

\* C5: an admission attempt for a repository is answered 429 and records
\* nothing when RateLimit admissions of that repository lie within the window
\* before it; it is admitted when fewer do, in particular once the window has
\* gone by since the earlier admissions.
C5_WindowLimit ==
    [][\A p \in Slots :
          (h[p].pc = "record" /\ h'[p].pc # "record")
              => IF Cardinality(RecentAdmissions(EventOf(p).fullName, h[p].tnow)) >= RateLimit
                 THEN /\ h'[p].pc = "done"
                      /\ h'[p].resp = <<429>>
                      /\ ~h'[p].allowed
                      /\ admitted' = admitted
                 ELSE /\ h'[p].pc = "gate"
                      /\ h'[p].allowed
                      /\ admitted' = [admitted EXCEPT ![EventOf(p).fullName] =
                                          Append(@, h[p].tnow)]]_vars

\* One attempt was answered 429, and a later one, a window after the
\* RateLimit admissions before it, was admitted.
C5_Witness ==
    \E p, q \in Slots :
        /\ h[p].resp = <<429>>
        /\ h[q].allowed
        /\ Len(admitted[EventOf(q).fullName]) = RateLimit + 1
        /\ \E i \in DOMAIN admitted[EventOf(q).fullName] :
              now - admitted[EventOf(q).fullName][i] >= WindowTicks

\* The slots whose handler is inside allow, between Lock and Unlock.
InAllow == {p \in Slots : h[p].pc \in {"prune", "record"}}

\* C22: at most one handler is inside allow at a time, and it holds the
\* mutex; no bucket ever holds more than RateLimit timestamps; and of the
\* admissions of a repository, no more than RateLimit lie in the window that
\* ends at any one of them.
C22_AtomicCheck ==
    /\ Cardinality(InAllow) <= 1
    /\ \A p \in Slots : p \in InAllow <=> mu = p
    /\ \A k \in RepoKeys :
          /\ Len(buckets[k]) <= RateLimit
          /\ \A i \in DOMAIN admitted[k] :
                Cardinality({j \in DOMAIN admitted[k] :
                                /\ admitted[k][j] <= admitted[k][i]
                                /\ admitted[k][j] > admitted[k][i] - WindowTicks})
                    <= RateLimit

\* One handler is inside allow with a full bucket before it, and another, for
\* the same repository, waits for the mutex.
C22_Witness ==
    \E p, q \in Slots :
        /\ h[p].pc = "record" /\ mu = p
        /\ h[q].pc = "lock"
        /\ EventOf(p).fullName = EventOf(q).fullName
        /\ Len(buckets[EventOf(p).fullName]) = RateLimit
        /\ Len(admitted[EventOf(p).fullName]) = RateLimit

\* The timestamps of bucket that lie less than one window before at.
StillInWindow(bucket, at) == SelectSeq(bucket, LAMBDA ts : at - ts < WindowTicks)

\* C23: every timestamp in a bucket is the time of an admission, and a check
\* that is refused leaves in the bucket of its repository the timestamps it
\* held that are still inside the window, in their order, and nothing else;
\* it leaves every other bucket and the record of admissions as they were.
C23_RefusalRecordsNothing ==
    /\ [](\A k \in RepoKeys : Range(buckets[k]) \subseteq Range(admitted[k]))
    /\ [][\A p \in Slots :
            (h[p].pc = "record" /\ h'[p].resp = <<429>>)
                => /\ buckets' = [buckets EXCEPT ![EventOf(p).fullName] =
                                      StillInWindow(@, h[p].tnow)]
                   /\ admitted' = admitted]_vars

\* An attempt was refused, and a later one was admitted exactly one window
\* after the admission that stood in its way: the refusal had put it off by
\* nothing.
C23_Witness ==
    \E p, q \in Slots :
        /\ h[p].resp = <<429>>
        /\ h[q].allowed
        /\ LET a == admitted[EventOf(q).fullName] IN
              /\ Len(a) = RateLimit + 1
              /\ a[Len(a)] - a[1] = WindowTicks
        /\ buckets[EventOf(q).fullName] = <<now>>

\* The repository of the request in slot p.
RepoOf(p) == h[p].req.body.event.fullName

\* C24: a check changes no bucket but the one of its own repository, it
\* prunes the timestamps of that bucket only, and it admits exactly when
\* fewer than RateLimit admissions of its own repository lie in the window,
\* however many admissions and refusals other repositories have had.
C24_PerRepository ==
    /\ [](\A p \in Slots :
            h[p].pc = "record"
                => h[p].valid = StillInWindow(buckets[RepoOf(p)], h[p].tnow))
    /\ [][\A p \in Slots :
            (h[p].pc = "record" /\ h'[p].pc # "record")
                => /\ \A k \in RepoKeys \ {RepoOf(p)} :
                          buckets'[k] = buckets[k] /\ admitted'[k] = admitted[k]
                   /\ h'[p].allowed <=>
                          Cardinality(RecentAdmissions(RepoOf(p), h[p].tnow)) < RateLimit
                   /\ h'[p].resp = <<429>> <=> ~h'[p].allowed]_vars

\* One repository is at its limit and an attempt for it was refused, and an
\* attempt for another repository was admitted.
C24_Witness ==
    \E p, q \in Slots :
        /\ RepoOf(p) # RepoOf(q)
        /\ h[p].resp = <<429>>
        /\ Len(buckets[RepoOf(p)]) = RateLimit
        /\ h[q].allowed
        /\ buckets[RepoOf(q)] = admitted[RepoOf(q)]
        /\ Len(admitted[RepoOf(q)]) = 1

\* The goroutine of slot p is at a call to GitHub, to the parameter store or
\* to DigitalOcean.
AtNetworkCall(p) == t[p].pc \in {"token", "put", "create"}

\* C25: the mutex of the rate limiter is held only by a handler that is
\* between the Lock and the Unlock of allow, where it reads the clock and its
\* bucket and calls nothing; that handler has launched no goroutine, so none
\* of its network calls is in progress; and a handler that waits for the
\* mutex waits for such a handler.  The send on the worker pool is one step.
C25_NoLockAcrossCalls ==
    /\ mu \in Slots \cup {0}
    /\ \A p \in Slots :
          /\ mu = p => h[p].pc \in {"prune", "record"} /\ ~AtNetworkCall(p)
          /\ AtNetworkCall(p) => mu # p /\ h[p].pc = "done"
          /\ (h[p].pc = "lock" /\ mu # 0)
                => mu # p /\ h[mu].pc \in {"prune", "record"}

\* A handler holds the mutex while the goroutine of another request is at a
\* network call: the two do not wait for each other.
C25_Witness ==
    \E p, q \in Slots :
        /\ mu = p /\ h[p].pc = "record"
        /\ t[q].pc = "put"
        /\ workerPool = 1

\* C26: a request answered 503 was admitted by the rate limiter before, and
\* the timestamp of that admission is in the bucket of its repository,
\* although nothing was launched for it; the step that answers 503 takes
\* nothing back from the buckets.
C26_RefusedAtGateStillCounted ==
    /\ [](\A p \in Slots :
            h[p].resp = <<503>>
                => /\ h[p].allowed
                   /\ NothingLaunched(p)
                   /\ h[p].admission \in DOMAIN admitted[RepoOf(p)]
                   /\ admitted[RepoOf(p)][h[p].admission] \in Range(buckets[RepoOf(p)]))
    /\ [][\A p \in Slots :
            (h[p].pc = "gate" /\ h'[p].resp = <<503>>)
                => buckets' = buckets /\ workerPool' = workerPool /\ t' = t]_vars

\* A request was answered 503 while the goroutine of another repository held
\* the pool, and its own repository, which has had no other admission, is at
\* its limit.
C26_Witness ==
    \E p, q \in Slots :
        /\ h[p].resp = <<503>>
        /\ RepoOf(q) # RepoOf(p)
        /\ t[q].pc \in {"token", "put", "create"}
        /\ Len(admitted[RepoOf(p)]) = 1
        /\ Len(buckets[RepoOf(p)]) = RateLimit

\* C27 as it is stated: a goroutine that has written its token and has not
\* yet called the provider finds its token still stored under its parameter
\* name, and no two goroutines at work have written under the same name.
C27_NoOverwriteBeforeCreate ==
    /\ \A p \in Slots :
          t[p].pc = "create"
              => [name |-> t[p].putParam, value |-> t[p].putValue] \in ssm
    /\ \A p, q \in Slots :
          (p # q /\ p \in Running /\ q \in Running
                 /\ t[p].putParam # <<>> /\ t[q].putParam # <<>>)
              => t[p].putParam # t[q].putParam

\* a and b are the same but for the case of their letters.
SameIgnoringCase(a, b) ==
    /\ Len(a) = Len(b)
    /\ \A i \in DOMAIN a :
          \/ a[i] = b[i]
          \/ \E k \in DOMAIN UpperSeq :
                {a[i], b[i]} = {UpperSeq[k], LowerSeq[k]}

\* One of the job's labels is the required label, whatever its case.
HasLabel(r) ==
    \E i \in DOMAIN r.body.event.labels :
        SameIgnoringCase(r.body.event.labels[i], requiredLabel)

\* Request r passes the seven checks that come before the rate limiter.
PassesChecks(r) ==
    /\ r.method = "POST"
    /\ ~r.body.readErr
    /\ r.body.size <= maxBodySize
    /\ SignatureMatches(r)
    /\ r.evtype = "workflow_job"
    /\ r.body.wellformed
    /\ r.body.event.action = "queued"
    /\ HasLabel(r)

\* C6: a goroutine is launched only for a request that passed the method,
\* size, signature, event type, parse, action and label checks, then the rate
\* limiter, then the gate; a request that fails one of the first seven is
\* answered at once, and the buckets and the pool change only in the steps of
\* requests that passed them all.
C6_LaunchOnlyAfterChecks ==
    /\ [](\A p \in Slots :
            /\ (h[p].launched > 0 \/ t[p] # NoTask)
                  => (PassesChecks(h[p].req) /\ h[p].allowed /\ h[p].resp = <<202>>)
            /\ (h[p].pc \in {"lock", "prune", "record", "gate"} \/ h[p].allowed)
                  => PassesChecks(h[p].req))
    /\ [][/\ \A p \in Slots :
                (h[p].pc = "idle" /\ h'[p].pc # "idle" /\ ~PassesChecks(h'[p].req))
                    => (h'[p].pc = "done" /\ UNCHANGED <<buckets, workerPool, mu, t>>)
          /\ (buckets' # buckets \/ workerPool' > workerPool)
                => \E p \in Slots :
                      /\ PassesChecks(h[p].req)
                      /\ h[p].pc \in {"record", "gate"}
                      /\ h'[p].pc # h[p].pc]_vars

\* While a goroutine runs for an admitted request, a request that fails a
\* check has been answered, and the bucket and the pool hold one entry each.
C6_Witness ==
    \E p, q \in Slots :
        /\ p \in Running
        /\ h[q].pc = "done"
        /\ ~PassesChecks(h[q].req)
        /\ workerPool = 1
        /\ Len(buckets[EventOf(p).fullName]) = 1

\* The calls of a provisioning attempt in which nothing failed.
OneOfEach == [jwt |-> 1, inst |-> 1, reg |-> 1, put |-> 1, create |-> 1]

\* C7: a goroutine launched for an event whose owner and repository names are
\* well formed, and whose collaborators all succeed, belongs to a request
\* answered 202 and ends having made exactly one credential chain (one JWT,
\* one installation token, one registration token), one parameter write and
\* one create call; no attempt ever makes a call twice.
C7_OneChainOnePutOneCreate ==
    \A p \in Slots :
        /\ \A c \in DOMAIN t[p].calls : t[p].calls[c] <= 1
        /\ (/\ t[p].pc = "finished"
            /\ ~t[p].failed
            /\ Len(EventOf(p).owner) > 0
            /\ Len(EventOf(p).name) > 0
            /\ Range(EventOf(p).owner) \cup Range(EventOf(p).name) \subseteq SafeChars)
              => /\ h[p].resp = <<202>>
                 /\ t[p].calls = OneOfEach
                 /\ t[p].outcome = "provisioned"

\* A delivery of a queued event was answered 202 and its runner was created.
C7_Witness ==
    \E p \in Slots :
        /\ h[p].req = Delivery(EvApp)
        /\ h[p].resp = <<202>>
        /\ t[p].pc = "finished"
        /\ ~t[p].failed
        /\ t[p].calls = OneOfEach

\* The response code the specification gives the request in slot p.
ExpectedCode(p) ==
    LET r == h[p].req IN
    IF r.method # "POST" THEN 405
    ELSE IF r.body.readErr \/ r.body.size > maxBodySize THEN 400
    ELSE IF ~SignatureMatches(r) THEN 401
    ELSE IF r.evtype # "workflow_job" THEN 200
    ELSE IF ~r.body.wellformed THEN 400
    ELSE IF r.body.event.action # "queued" THEN 200
    ELSE IF ~HasLabel(r) THEN 200
    ELSE IF ~h[p].allowed THEN 429
    ELSE IF t[p] = NoTask THEN 503
    ELSE 202

\* C8: every answered request has exactly one response code, the one of the
\* first check it fails (405, 400, 401, 200, 400, 200, 200, 429, 503 in that
\* order) or 202 when it fails none; a request not yet answered has none; and
\* the code is 202 exactly when the request launched one goroutine.
C8_OneResponse ==
    \A p \in Slots :
        /\ h[p].pc = "done" => h[p].resp = <<ExpectedCode(p)>>
        /\ h[p].pc # "done" => h[p].resp = <<>>
        /\ h[p].launched <= 1
        /\ (h[p].resp = <<202>>) <=> (h[p].launched = 1)
        /\ (t[p] # NoTask) <=> (h[p].launched = 1)

\* A request was answered 503 while another, answered 202, holds the pool.
C8_Witness ==
    \E p, q \in Slots :
        /\ h[p].resp = <<503>>
        /\ h[q].resp = <<202>>
        /\ q \in Running

\* The goroutine in slot p has made its runner name.
Named(p) == t[p].putName # <<>>

\* C9 as the specification states it: two events of one repository with the
\* same job id, named in different seconds, get different runner names.
C9_DistinctNames ==
    \A p, q \in Slots :
        (/\ Named(p) /\ Named(q)
         /\ EventOf(p).fullName = EventOf(q).fullName
         /\ EventOf(p).id = EventOf(q).id
         /\ Unix(t[p].nameTime) # Unix(t[q].nameTime))
            => t[p].putName # t[q].putName

\* C10: the name given to the parameter store and the name given to the
\* compute provider are the same name of at most 63 characters, and two
\* attempts with the same repository name and job id, named in the same
\* second, have the same name.
C10_NameBounded ==
    \A p \in Slots :
        /\ Len(t[p].putName) <= 63
        /\ Len(t[p].createName) <= 63
        /\ t[p].createName # <<>> => t[p].createName = t[p].putName
        /\ \A q \in Slots :
              (/\ Named(p) /\ Named(q)
               /\ EventOf(p).name = EventOf(q).name
               /\ EventOf(p).id = EventOf(q).id
               /\ Unix(t[p].nameTime) = Unix(t[q].nameTime))
                  => t[p].putName = t[q].putName

\* A name was cut to 63 characters and given to both collaborators.
C10_Witness ==
    \E p \in Slots :
        /\ Len(EventOf(p).name) >= 60
        /\ Len(t[p].putName) = 63
        /\ t[p].createName = t[p].putName

\* The names of the parameters the store holds.
StoredNames(store) == {e.name : e \in store}

\* C11: the parameters of the create call carry the name of the parameter
\* the token was stored under, and no field of them is the registration
\* token; the token was written to the store, with success, before the create
\* call, and the parameter is in the store when the call is made; after a
\* failed write no create call is made.
C11_SecretByReference ==
    /\ [](\A p \in Slots :
            /\ t[p].putResp = "error" => t[p].calls.create = 0
            /\ t[p].calls.create > 0
                  => /\ t[p].calls.put = 1
                     /\ t[p].putResp = "ok"
                     /\ t[p].putValue = t[p].regToken
                     /\ t[p].regToken # <<>>
                     /\ t[p].createParams.RunnerTokenSSMParam = sTokenPath \o t[p].putName
                     /\ t[p].createParams.RunnerTokenSSMParam = t[p].putParam
                     /\ \A f \in DOMAIN t[p].createParams :
                           t[p].createParams[f] # t[p].regToken)
    /\ [][\A p \in Slots :
            t'[p].calls.create > t[p].calls.create
                => t'[p].createParams.RunnerTokenSSMParam \in StoredNames(ssm)]_vars

\* A create call was made, with success, for a token stored before it.
C11_Witness ==
    \E p \in Slots :
        /\ t[p].calls.create = 1
        /\ t[p].createResp = "ok"
        /\ t[p].createParams.RunnerTokenSSMParam \in StoredNames(ssm)

\* The owner and repository names of event e are in the allowed character set.
WellFormedNames(e) ==
    /\ Len(e.owner) > 0
    /\ Len(e.name) > 0
    /\ Range(e.owner) \cup Range(e.name) \subseteq SafeChars

\* C12: a provisioning attempt for an event whose owner or repository name is
\* outside the allowed character set ends as invalid input having made no
\* credential request, no parameter write and no create call; and no attempt
\* is rejected as invalid after it has made one.
C12_InvalidInputNoSideEffects ==
    \A p \in Slots :
        /\ (t[p].pc # "none" /\ ~WellFormedNames(EventOf(p)))
              => /\ t[p].calls = NoCalls
                 /\ t[p].putParam = <<>>
                 /\ t[p].createParams = NoParams
                 /\ t[p].dropletID = 0
                 /\ t[p].pc = "finished" => t[p].outcome = "invalid owner/repo"
        /\ t[p].outcome \in {"invalid owner/repo", "invalid repo format"}
              => (t[p].calls = NoCalls /\ ~WellFormedNames(EventOf(p)))

\* An attempt for an owner name with a blank in it ended as invalid input.
C12_Witness ==
    \E p \in Slots :
        /\ EventOf(p) = EvBadOwner
        /\ t[p].pc = "finished"
        /\ t[p].outcome = "invalid owner/repo"
        /\ ssm = {}
        /\ provider.droplets = {}

\* C13: each exchange of the credential chain is made at most once per
\* attempt; after a refused installation-token exchange the attempt has ended
\* without a registration-token request, and after a refused exchange of
\* either kind it has ended without a parameter write or a create call.
C13_ChainFailsHard ==
    \A p \in Slots :
        /\ t[p].calls.jwt <= 1 /\ t[p].calls.inst <= 1 /\ t[p].calls.reg <= 1
        /\ t[p].instResp = "error"
              => /\ t[p].pc = "finished"
                 /\ t[p].calls.inst = 1
                 /\ t[p].calls.reg = 0
                 /\ t[p].calls.put = 0 /\ t[p].calls.create = 0
                 /\ t[p].putParam = <<>>
        /\ t[p].regResp = "error"
              => /\ t[p].pc = "finished"
                 /\ t[p].calls.inst = 1
                 /\ t[p].calls.reg = 1
                 /\ t[p].calls.put = 0 /\ t[p].calls.create = 0
                 /\ t[p].putParam = <<>>

\* One attempt ended on a refused registration-token exchange and another on
\* a refused installation-token exchange.
C13_Witness ==
    \E p, q \in Slots :
        /\ t[p].regResp = "error" /\ t[p].pc = "finished"
        /\ t[q].instResp = "error" /\ t[q].pc = "finished"

\* The attempt in slot p has gone through credential acquisition.
Acquired(p) == t[p].pc \in {"put", "create"} \/ t[p].calls.jwt > 0

C15_NoRetryNoCompensation ==
    /\ [](\A p \in Slots :
            /\ \A c \in DOMAIN t[p].calls : t[p].calls[c] <= 1
            /\ t[p].createResp = "error"
                  => /\ t[p].pc = "finished"
                     /\ t[p].calls.put = 1 /\ t[p].calls.create = 1
                     /\ t[p].putParam \in StoredNames(ssm)
                     /\ t[p].dropletID = 0)
    /\ [][StoredNames(ssm) \subseteq StoredNames(ssm')]_vars

\* A create call failed: the parameter is in the store and there is no
\* droplet.
C15_Witness ==
    \E p \in Slots :
        /\ t[p].createResp = "error"
        /\ t[p].putParam \in StoredNames(ssm)
        /\ provider.droplets = {}

\* The request of the last callback carries the shared secret.
RightSecret == cb.req.secret # "" /\ cb.req.secret = callbackSecret

\* The body of the last callback could be read and names a droplet.
NamesDroplet ==
    /\ ~cb.req.body.readErr
    /\ cb.req.body.size <= maxCallbackBody
    /\ cb.req.body.wellformed
    /\ cb.req.body.id # 0

\* C16: the callback answers 405 to a method other than POST, 401 to a
\* missing or wrong secret, 400 to a body it cannot read or parse, to one
\* longer than the limit and to a zero id, each without a delete call; with
\* the right secret and a non-zero id it makes exactly one delete call, for
\* that id, and answers 200 when the droplet was deleted and 500 when the
\* provider returned an error, which leaves the provider as it was.
C16_CallbackResponses ==
    /\ [](cb # NoCallback =>
            IF cb.req.method # "POST"
            THEN cb.resp = <<405>> /\ cb.deletes = <<>>
            ELSE IF ~RightSecret
            THEN cb.resp = <<401>> /\ cb.deletes = <<>>
            ELSE IF ~NamesDroplet
            THEN cb.resp = <<400>> /\ cb.deletes = <<>>
            ELSE /\ cb.deletes = <<cb.req.body.id>>
                 /\ cb.resp \in {<<200>>, <<500>>}
                 /\ cb.resp = <<200>> => ~DropletExists(provider, cb.req.body.id))
    /\ [][provider'.lastID = provider.lastID =>
            /\ provider' # provider
                  => /\ cb'.resp = <<200>>
                     /\ DropletExists(provider, cb'.req.body.id)
                     /\ provider'.droplets =
                            {d \in provider.droplets : d.id # cb'.req.body.id}
            /\ (cb' # cb /\ cb'.resp # <<200>>) => provider' = provider]_vars

\* A callback with the right secret deleted the first droplet, and the other
\* droplets are still there.
C16_Witness ==
    /\ cb.req.method = "POST" /\ RightSecret
    /\ cb.resp = <<200>> /\ cb.deletes = <<1>>
    /\ ~DropletExists(provider, 1)
    /\ DropletExists(provider, 2)

\* The time at which the run of the reaper listed the droplets, and the age a
\* listed droplet had then.
RunTime == reaper.cutoff + MaxAgeTicks
AgeOf(d) == RunTime - (d.created - StartUnix) * TicksPerSec
Minutes(n) == n * 60 * TicksPerSec

\* The listed droplets the loop has visited, and the ids of the ones older
\* than maxAge among a sequence of droplets.
Visited == SubSeq(reaper.listing, 1, reaper.i - 1)
StaleIDs(list) ==
    LET stale == SelectSeq(list, LAMBDA d : AgeOf(d) > Minutes(maxAgeMin))
    IN  [k \in DOMAIN stale |-> stale[k].id]

\* C17: the listing of a run holds droplets with the runner tag only, the
\* delete commands of the run are, in order, the ids of the visited droplets
\* older than maxAge and of no other, and a droplet that disappears was one
\* of those.
C17_DeletesExactlyStale ==
    /\ [](reaper.pc \in {"loop", "done"} /\ reaper.result # "error"
            => /\ \A k \in DOMAIN reaper.listing :
                      "github-runner" \in reaper.listing[k].tags
               /\ reaper.commands = StaleIDs(Visited))
    /\ [][provider'.droplets # provider.droplets /\ provider'.lastID = provider.lastID
            => \E k \in DOMAIN reaper.listing :
                  /\ AgeOf(reaper.listing[k]) > Minutes(maxAgeMin)
                  /\ provider.droplets \ provider'.droplets = {reaper.listing[k]}
                  /\ provider'.droplets \subseteq provider.droplets]_vars

\* A run over droplets 90, 30 and 10 minutes old has ended: its only command
\* was for the one 90 minutes old, which is gone, and the others are there.
C17_Witness ==
    /\ reaper.pc = "done" /\ reaper.result = "ok"
    /\ Len(reaper.listing) = 3
    /\ AgeOf(reaper.listing[1]) = Minutes(90)
    /\ AgeOf(reaper.listing[2]) = Minutes(30)
    /\ AgeOf(reaper.listing[3]) = Minutes(10)
    /\ reaper.commands = <<reaper.listing[1].id>>
    /\ reaper.deleted = 1
    /\ {d.id : d \in provider.droplets} = {reaper.listing[2].id, reaper.listing[3].id}

\* C18: a run whose listing succeeded ends without error, with a delete
\* command for every listed droplet older than maxAge whether or not earlier
\* deletes failed, and with a count equal to the number of those droplets that
\* are gone; a run ends with an error only when the listing failed, before
\* any command.
C18_ContinuesPastFailures ==
    /\ reaper.pc = "loop" => reaper.result = ""
    /\ reaper.pc = "done" /\ reaper.result = "ok"
          => /\ reaper.i = Len(reaper.listing) + 1
             /\ reaper.commands = StaleIDs(reaper.listing)
             /\ reaper.deleted =
                   Cardinality({k \in DOMAIN reaper.commands :
                                   ~DropletExists(provider, reaper.commands[k])})
    /\ reaper.pc = "done" /\ reaper.result # "ok"
          => /\ reaper.result = "error"
             /\ reaper.listing = <<>> /\ reaper.commands = <<>> /\ reaper.deleted = 0

\* A run has ended without error after two commands: the first delete failed
\* and its droplet is still there, the second succeeded.
C18_Witness ==
    /\ reaper.pc = "done" /\ reaper.result = "ok"
    /\ Len(reaper.commands) = 2
    /\ DropletExists(provider, reaper.commands[1])
    /\ ~DropletExists(provider, reaper.commands[2])
    /\ reaper.deleted = 1

\* Droplet d was made by CreateRunner: it has the name of a runner.
ByOrchestrator(d) == Len(d.name) > 4 /\ SubSeq(d.name, 1, 4) = <<"e","p","h","-">>

\* Droplet id was made by CreateRunner, is there, and is older than maxAge.
StaleRunner(id) ==
    \E d \in provider.droplets :
        /\ d.id = id
        /\ ByOrchestrator(d)
        /\ now - (d.created - StartUnix) * TicksPerSec > Minutes(maxAgeMin)

C21_VerifierAndLog ==
    \A p \in Slots :
        LET r == h[p].req
            caller == IF r.xff # "" THEN r.xff ELSE r.remote
        IN  IF h[p].pc = "idle" \/ r.method # "POST" \/ ReadAllFails(r.body)
            THEN h[p].log = <<>>
            ELSE IF SignatureMatches(r)
            THEN h[p].log = <<>> /\ h[p].resp # <<401>>
            ELSE /\ h[p].resp = <<401>>
                 /\ Len(h[p].log) = 1
                 /\ h[p].log[1].from = caller
                 /\ h[p].log[1].msg =
                       IF HasPrefix(r.sig, sSha256) THEN "signature mismatch"
                       ELSE "invalid signature format"

\* One request through a proxy failed on a digest made with another key, and
\* its log line names the forwarded address; another, straight from the
\* caller, passed and left no line.
C21_Witness ==
    \E p, q \in Slots :
        /\ h[p].req.xff = sForwardedFor
        /\ h[p].req.sig = SigWrongKey(h[p].req.body)
        /\ h[p].log = <<[msg |-> "signature mismatch", from |-> sForwardedFor]>>
        /\ h[q].req.xff = ""
        /\ h[q].req.sig = SigValid(h[q].req.body)
        /\ h[q].pc = "done" /\ h[q].resp = <<202>>
        /\ h[q].log = <<>>

\* C28: the commands of a run are, in order, the ids of the visited droplets
\* whose creation timestamp does not parse, whatever their age, and of those
\* whose timestamp parses and is older than maxAge.
C28_UnparsedIsStale ==
    reaper.pc \in {"loop", "done"} /\ reaper.result # "error"
        => LET due == SelectSeq(Visited,
                                LAMBDA d : ~d.rfc3339 \/ AgeOf(d) > Minutes(maxAgeMin))
           IN  reaper.commands = [k \in DOMAIN due |-> due[k].id]

\* A run has ended in which a droplet made that very moment, whose timestamp
\* does not parse, was deleted, and one as young whose timestamp parses was
\* kept.
C28_Witness ==
    /\ reaper.pc = "done" /\ reaper.result = "ok"
    /\ \E j, k \in DOMAIN reaper.listing :
          /\ ~reaper.listing[j].rfc3339
          /\ AgeOf(reaper.listing[j]) = 0
          /\ reaper.commands = <<reaper.listing[j].id>>
          /\ ~DropletExists(provider, reaper.listing[j].id)
          /\ reaper.listing[k].rfc3339
          /\ AgeOf(reaper.listing[k]) = 0
          /\ DropletExists(provider, reaper.listing[k].id)

\* C29 as it is stated: a callback without a secret is answered 401 and
\* makes no delete call.
C29_EmptySecretAlways401 ==
    (cb # NoCallback /\ cb.req.secret = "")
        => cb.resp = <<401>> /\ cb.deletes = <<>>

\* C29, amended: a callback without a secret makes no delete call and leaves
\* the provider as it was, also when the configured secret is empty; it is
\* answered 401 when it is a POST and 405 when it is not.
C29_EmptySecretRejected ==
    /\ []((cb # NoCallback /\ cb.req.secret = "")
            => /\ cb.deletes = <<>>
               /\ cb.resp = IF cb.req.method = "POST" THEN <<401>> ELSE <<405>>)
    /\ [][(cb' # cb /\ cb'.req.secret = "") => provider' = provider]_vars

\* The configured secret is empty, and a POST without a secret that names a
\* droplet was answered 401; the droplet is still there.
C29_Witness ==
    /\ cfg.CallbackSecret = ""
    /\ cb.req.method = "POST" /\ cb.req.secret = ""
    /\ NamesDroplet
    /\ DropletExists(provider, cb.req.body.id)
    /\ cb.resp = <<401>> /\ cb.deletes = <<>>

\* C30: a POST with the right secret and a body that names a non-zero id
\* makes one delete call, for that id, be the id negative, unknown to the
\* provider or the id of a droplet that is no runner; when the provider
\* deletes, the droplet with that id is gone, whatever its tags.
C30_DeletesWhateverIsNamed ==
    (cb.req.method = "POST" /\ RightSecret /\ NamesDroplet)
        => /\ cb.deletes = <<cb.req.body.id>>
           /\ cb.resp # <<400>>
           /\ cb.resp = <<200>>
                 => /\ Cardinality(cb.gone) = 1
                    /\ \A d \in cb.gone : d.id = cb.req.body.id /\ d \notin provider.droplets
           /\ (cb.req.body.id < 0 \/ cb.req.body.id > provider.lastID)
                 => cb.resp = <<500>>

\* A callback with the right secret named the droplet of another user of the
\* account, which is no runner, and the provider deleted it.
C30_Witness ==
    /\ cb.req.method = "POST" /\ RightSecret
    /\ cb.resp = <<200>>
    /\ \E d \in cb.gone : "github-runner" \notin d.tags

\* s without the blanks around it.
Stripped(s) ==
    LET solid == {k \in DOMAIN s : s[k] # " "} IN
    IF solid = {} THEN <<>>
    ELSE SubSeq(s, CHOOSE k \in solid : \A j \in solid : k <= j,
                   CHOOSE k \in solid : \A j \in solid : k >= j)

\* The labels of the list that survive, stripped, in the order of the list.
RECURSIVE Kept(_)
Kept(labels) ==
    IF labels = <<>> THEN <<>>
    ELSE LET x == Stripped(Head(labels)) IN
         (IF x # <<>> /\ Range(x) \subseteq SafeChars THEN <<x>> ELSE <<>>)
             \o Kept(Tail(labels))

\* The elements of list with a comma between one and the next.
RECURSIVE CommaList(_)
CommaList(list) ==
    IF list = <<>> THEN <<>>
    ELSE IF Len(list) = 1 THEN list[1]
    ELSE CommaList(SubSeq(list, 1, Len(list) - 1)) \o <<",">> \o list[Len(list)]

sSelfHostedChef == <<"S","e","l","f","-","H","o","s","t","e","d",",","c","h","e","f">>

\* C20: the labels given to the create call are the event's labels in their
\* order, each stripped of the blanks around it, without those that are then
\* empty or hold a character other than a letter, a digit, "-" or "_",
\* separated by commas; the labels "Self-Hosted", " chef ", "bad label!"
\* give Self-Hosted,chef.
C20_SanitizedLabels ==
    \A p \in Slots :
        t[p].calls.create > 0
            => /\ t[p].createParams.RunnerLabels = CommaList(Kept(EventOf(p).labels))
               /\ EventOf(p).labels = <<sSelfHostedMixed, sChefPadded, sBadLabel>>
                     => t[p].createParams.RunnerLabels = sSelfHostedChef

\* The create call for the event with the three labels was made.
C20_Witness ==
    \E p \in Slots :
        /\ EventOf(p) = EvAppLabels
        /\ t[p].calls.create = 1
        /\ t[p].createParams.RunnerLabels = sSelfHostedChef

====
